---- MODULE Spec2Model ----
(***************************************************************************)
(* Model of gen-emojis.py: fetch the OpenMoji data set, map every record   *)
(* to the gitmoji schema, write the result to emojis.json.                 *)
(*                                                                         *)
(* Strings are sequences of characters; a character is a TLA+ string that  *)
(* names it ("G", " ", "U+0130").  A JSON object is a function from field  *)
(* names to values, so a record that lacks a field has a smaller DOMAIN.   *)
(***************************************************************************)
EXTENDS Naturals, Sequences, FiniteSets

\* ------------------------------------------------------------------ bounds

\* longest annotation drawn for the mapper's inputs
MaxLen == 2

\* longest sequence of raw records drawn as a response body / mapper input
MaxRecs == 2

\* --------------------------------------------------------------- characters

\* the characters every annotation up to MaxLen is drawn over: an uppercase
\* letter, a lowercase letter, the space
Chars == {"G", "f", " "}

\* "U+0130" is LATIN CAPITAL LETTER I WITH DOT ABOVE, whose lowercase is the
\* two code points "i" "U+0307": str.lower() may change the length.
DottedAnnotations == {<<"U+0130">>, <<"U+0130", " ">>, <<" ", "U+0130", "f">>}

UpperChars == {"G", "U+0130"}

\* str.lower() on one character
LowerChar(c) ==
    CASE c = "G" -> <<"g">>
      [] c = "U+0130" -> <<"i", "U+0307">>
      [] OTHER -> <<c>>

RECURSIVE str_lower(_)
\* str.lower(): every character replaced by its lowercase mapping
str_lower(s) ==
    IF s = <<>> THEN <<>> ELSE LowerChar(Head(s)) \o str_lower(Tail(s))

RECURSIVE str_replace(_, _, _)
\* str.replace(old, new) for one-character old and new
str_replace(s, old, new) ==
    IF s = <<>> THEN <<>>
    ELSE <<IF Head(s) = old THEN new ELSE Head(s)>> \o str_replace(Tail(s), old, new)

\* Python's None
None == "None"

\* ------------------------------------------------------------ map_to_schema

RequiredFields == {"emoji", "hexcode", "annotation"}

MappedFields == {"emoji", "entity", "code", "description", "name", "semver"}

\* the dict literal appended for one raw record; the dict subscripts raise
\* KeyError when a key is absent (HasKeys is the guard of that)
HasKeys(emoji_data) == RequiredFields \subseteq DOMAIN emoji_data

\* faulty variant: the dict built without .lower()
MapRecord_NoLower(emoji_data) ==
    [emoji |-> emoji_data["emoji"],
     entity |-> <<"&", "#", "x">> \o emoji_data["hexcode"] \o <<";">>,
     code |-> <<":">> \o str_replace(emoji_data["annotation"], " ", "_") \o <<":">>,
     description |-> emoji_data["annotation"],
     name |-> str_replace(emoji_data["annotation"], " ", "_"),
     semver |-> None]

\* faulty variant: the raw record's other keys carried into the dict
MapRecord_CopyAll(emoji_data) ==
    [k \in DOMAIN emoji_data \cup MappedFields |->
        CASE k = "emoji" -> emoji_data["emoji"]
          [] k = "entity" -> <<"&", "#", "x">> \o emoji_data["hexcode"] \o <<";">>
          [] k = "code" ->
               <<":">> \o str_lower(str_replace(emoji_data["annotation"], " ", "_")) \o <<":">>
          [] k = "description" -> emoji_data["annotation"]
          [] k = "name" -> str_lower(str_replace(emoji_data["annotation"], " ", "_"))
          [] k = "semver" -> None
          [] OTHER -> emoji_data[k]]

MapRecord(emoji_data) ==
    [emoji |-> emoji_data["emoji"],
     entity |-> <<"&", "#", "x">> \o emoji_data["hexcode"] \o <<";">>,
     code |-> <<":">> \o str_lower(str_replace(emoji_data["annotation"], " ", "_")) \o <<":">>,
     description |-> emoji_data["annotation"],
     name |-> str_lower(str_replace(emoji_data["annotation"], " ", "_")),
     semver |-> None]

\* the outcome of a call: the exception raised ("none" when it returned) and
\* the value returned
Returned(v) == [exc |-> "none", val |-> v]
Raised(e) == [exc |-> e, val |-> <<>>]

\* faulty variant: a record already mapped is not appended again
RECURSIVE MapLoop_Dedup(_, _, _)
MapLoop_Dedup(emojis_data, i, mapped_emojis) ==
    IF i > Len(emojis_data) THEN Returned(mapped_emojis)
    ELSE IF ~HasKeys(emojis_data[i]) THEN Raised("KeyError")
    ELSE IF \E j \in 1..Len(mapped_emojis) : mapped_emojis[j] = MapRecord(emojis_data[i])
         THEN MapLoop_Dedup(emojis_data, i + 1, mapped_emojis)
    ELSE MapLoop_Dedup(emojis_data, i + 1, Append(mapped_emojis, MapRecord(emojis_data[i])))

\* faulty variant: the loop stops at a record lacking a key and returns
\* what it has built
RECURSIVE MapLoop_SkipBad(_, _, _)
MapLoop_SkipBad(emojis_data, i, mapped_emojis) ==
    IF i > Len(emojis_data) THEN Returned(mapped_emojis)
    ELSE IF ~HasKeys(emojis_data[i]) THEN Returned(mapped_emojis)
    ELSE MapLoop_SkipBad(emojis_data, i + 1, Append(mapped_emojis, MapRecord(emojis_data[i])))

RECURSIVE MapLoop(_, _, _)
\* the for loop of map_to_schema, at its i-th record with mapped_emojis built
MapLoop(emojis_data, i, mapped_emojis) ==
    IF i > Len(emojis_data) THEN Returned(mapped_emojis)
    ELSE IF ~HasKeys(emojis_data[i]) THEN Raised("KeyError")
    ELSE MapLoop(emojis_data, i + 1, Append(mapped_emojis, MapRecord(emojis_data[i])))

map_to_schema(emojis_data) == MapLoop(emojis_data, 1, <<>>)

\* ------------------------------------------------------------------- inputs

RECURSIVE SeqsUpTo(_, _)
\* the sequences over S of length at most n
SeqsUpTo(S, n) ==
    IF n = 0 THEN {<<>>}
    ELSE LET shorter == SeqsUpTo(S, n - 1)
         IN shorter \cup {Append(s, x) : s \in shorter, x \in S}

\* U+1F600 GRINNING FACE; U+D83D is a lone surrogate, which json.loads
\* accepts ("\ud83d") and the utf-8 codec cannot encode
Grinning == "U+1F600"
LoneSurrogate == "U+D83D"

Hex1F600 == <<"1", "F", "6", "0", "0">>

GrinningFace == <<"G", "f", " ", "f">>

RawRecord(e, h, a) == [emoji |-> e, hexcode |-> h, annotation |-> a]

\* a function without the key k
DropKey(r, k) == [x \in DOMAIN r \ {k} |-> r[x]]

\* a record of the upstream data carries more fields than the three read
WithGroup(r) == [x \in DOMAIN r \cup {"group"} |-> IF x = "group" THEN <<"f">> ELSE r[x]]

\* the raw records of the pipeline's response bodies: two well-formed ones,
\* one with an extra field, one with an unencodable emoji, and one lacking
\* each required field
PipelineRecords ==
    LET r == RawRecord(Grinning, Hex1F600, GrinningFace)
    IN {r, RawRecord(Grinning, Hex1F600, <<"U+0130">>), WithGroup(r),
        RawRecord(LoneSurrogate, Hex1F600, <<"f">>)}
       \cup {DropKey(r, k) : k \in RequiredFields}

\* the raw records of the mapper's inputs: every annotation up to MaxLen
\* over Chars, the annotations with U+0130, a record with a further field
\* and one lacking each required field
MapperRecords ==
    LET r == RawRecord(Grinning, Hex1F600, GrinningFace)
    IN {RawRecord(Grinning, Hex1F600, a) :
            a \in SeqsUpTo(Chars, MaxLen) \cup DottedAnnotations}
       \cup {WithGroup(r)}
       \cup {DropKey(r, k) : k \in RequiredFields}

\* what requests.get(url) meets: a network failure, or a response with a
\* status code and a body that is JSON (a sequence of records) or is not
StatusCodes == {200, 404, 500}

Responses ==
    {[kind |-> "network_error", status_code |-> 0, is_json |-> FALSE, body |-> <<>>]}
    \cup {[kind |-> "http", status_code |-> st, is_json |-> FALSE, body |-> <<>>] :
            st \in StatusCodes}
    \cup {[kind |-> "http", status_code |-> st, is_json |-> TRUE, body |-> b] :
            st \in StatusCodes, b \in SeqsUpTo(PipelineRecords, MaxRecs)}

\* the content emojis.json holds before the run, when it exists
OldContent == <<[chunk |-> "old"]>>

NoFile == [exists |-> FALSE, content |-> <<>>]
OldFile == [exists |-> TRUE, content |-> OldContent]

\* ------------------------------------------------------------------- state

VARIABLES
    pc,             \* position of the program
    response,       \* what the GET meets (environment)
    writable,       \* whether open(output_file, 'w') is permitted (environment)
    file_before,    \* emojis.json before the run
    file,           \* emojis.json now
    fileOpen,       \* whether the handle f is open
    emojis_data,    \* __main__'s emojis_data
    mapped_emojis,  \* __main__'s mapped_emojis
    log,            \* the records handed to logging
    exc,            \* the uncaught exception that ended the run, or "none"
    calls           \* the stages __main__ has called, in order

vars == <<pc, response, writable, file_before, file, fileOpen, emojis_data,
          mapped_emojis, log, exc, calls>>

Unset == [kind |-> "unset", val |-> <<>>]
NoneValue == [kind |-> "None", val |-> <<>>]
ListValue(v) == [kind |-> "list", val |-> v]

\* Python's truth value of emojis_data
Truthy(v) == v.kind = "list" /\ v.val # <<>>

Info(m) == [level |-> "INFO", msg |-> m]
Error(m) == [level |-> "ERROR", msg |-> m]

Logged(m) == \E i \in 1..Len(log) : log[i].msg = m

Init ==
    /\ pc = "fetch"
    /\ response \in Responses
    /\ writable \in BOOLEAN
    /\ file_before \in {NoFile, OldFile}
    /\ file = file_before
    /\ fileOpen = FALSE
    /\ emojis_data = Unset
    /\ mapped_emojis = Unset
    /\ log = <<>>
    /\ exc = "none"
    /\ calls = <<>>

\* ------------------------------------------------------- fetch_openmoji_data

\* requests.get raises (ConnectionError): nothing catches it
FetchNetworkError ==
    /\ pc = "fetch"
    /\ response.kind = "network_error"
    /\ log' = Append(log, Info("Fetching OpenMoji data..."))
    /\ calls' = Append(calls, "fetch")
    /\ exc' = "ConnectionError"
    /\ pc' = "crashed"
    /\ UNCHANGED <<response, writable, file_before, file, fileOpen, emojis_data,
                   mapped_emojis>>

\* faulty variant: the GET is issued again after a non-200 status
FetchNon200_Retry ==
    /\ pc = "fetch"
    /\ response.kind = "http"
    /\ response.status_code # 200
    /\ Len(calls) < 3
    /\ log' = log \o <<Info("Fetching OpenMoji data..."),
                       Error("Failed to fetch data from {url}")>>
    /\ calls' = Append(calls, "fetch")
    /\ UNCHANGED <<pc, emojis_data>>
    /\ UNCHANGED <<response, writable, file_before, file, fileOpen, mapped_emojis, exc>>

\* faulty variant: None returned without logging.error
FetchNon200_Silent ==
    /\ pc = "fetch"
    /\ response.kind = "http"
    /\ response.status_code # 200
    /\ log' = Append(log, Info("Fetching OpenMoji data..."))
    /\ calls' = Append(calls, "fetch")
    /\ emojis_data' = NoneValue
    /\ pc' = "check"
    /\ UNCHANGED <<response, writable, file_before, file, fileOpen, mapped_emojis, exc>>

\* status_code != 200: logging.error, return None
FetchNon200 ==
    /\ pc = "fetch"
    /\ response.kind = "http"
    /\ response.status_code # 200
    /\ log' = log \o <<Info("Fetching OpenMoji data..."),
                       Error("Failed to fetch data from {url}")>>
    /\ calls' = Append(calls, "fetch")
    /\ emojis_data' = NoneValue
    /\ pc' = "check"
    /\ UNCHANGED <<response, writable, file_before, file, fileOpen, mapped_emojis, exc>>

\* status_code == 200 and response.json() raises (JSONDecodeError)
FetchBadJson ==
    /\ pc = "fetch"
    /\ response.kind = "http"
    /\ response.status_code = 200
    /\ ~response.is_json
    /\ log' = Append(log, Info("Fetching OpenMoji data..."))
    /\ calls' = Append(calls, "fetch")
    /\ exc' = "JSONDecodeError"
    /\ pc' = "crashed"
    /\ UNCHANGED <<response, writable, file_before, file, fileOpen, emojis_data,
                   mapped_emojis>>

\* status_code == 200: return response.json()
FetchOk ==
    /\ pc = "fetch"
    /\ response.kind = "http"
    /\ response.status_code = 200
    /\ response.is_json
    /\ log' = Append(log, Info("Fetching OpenMoji data..."))
    /\ calls' = Append(calls, "fetch")
    /\ emojis_data' = ListValue(response.body)
    /\ pc' = "check"
    /\ UNCHANGED <<response, writable, file_before, file, fileOpen, mapped_emojis, exc>>

\* ------------------------------------------------------------------ __main__

\* `if emojis_data:` is false (None, or an empty list): the script ends
MainSkip ==
    /\ pc = "check"
    /\ ~Truthy(emojis_data)
    /\ pc' = "done"
    /\ UNCHANGED <<response, writable, file_before, file, fileOpen, emojis_data,
                   mapped_emojis, log, exc, calls>>

\* `if emojis_data:` is true
MainEnter ==
    /\ pc = "check"
    /\ Truthy(emojis_data)
    /\ log' = Append(log, Info("Mapping emojis to the required schema..."))
    /\ pc' = "map"
    /\ UNCHANGED <<response, writable, file_before, file, fileOpen, emojis_data,
                   mapped_emojis, exc, calls>>

\* mapped_emojis = map_to_schema(emojis_data) raises KeyError
MainMapRaise ==
    /\ pc = "map"
    /\ map_to_schema(emojis_data.val).exc # "none"
    /\ calls' = Append(calls, "map")
    /\ exc' = map_to_schema(emojis_data.val).exc
    /\ pc' = "crashed"
    /\ UNCHANGED <<response, writable, file_before, file, fileOpen, emojis_data,
                   mapped_emojis, log>>

\* mapped_emojis = map_to_schema(emojis_data) returns
MainMap ==
    /\ pc = "map"
    /\ map_to_schema(emojis_data.val).exc = "none"
    /\ calls' = Append(calls, "map")
    /\ mapped_emojis' = ListValue(map_to_schema(emojis_data.val).val)
    /\ log' = Append(log, Info("Saving mapped emojis to emojis.json..."))
    /\ pc' = "save"
    /\ UNCHANGED <<response, writable, file_before, file, fileOpen, emojis_data, exc>>

\* -------------------------------------------------------------- save_to_json

SchemaUrl == "https://gitmoji.dev/api/gitmojis/schema"

\* json.dump writes the document chunk by chunk: what precedes the records
\* (the "$schema" entry and the opening of "gitmojis"), each record, and the
\* closing brackets.  A chunk is modelled by the value it serializes.
Document(m) ==
    <<[chunk |-> "open", schema |-> SchemaUrl]>> \o m \o <<[chunk |-> "close"]>>

\* whether the utf-8 codec encodes the chunk (ensure_ascii=False writes the
\* characters as they are); only the emoji field draws a lone surrogate here
Encodable(c) == ~("emoji" \in DOMAIN c /\ c["emoji"] = LoneSurrogate)

\* the chunk f.write is handed next
NextChunk == Document(mapped_emojis.val)[Len(file.content) + 1]

AllWritten == Len(file.content) = Len(Document(mapped_emojis.val))

\* open(output_file, 'w') raises (PermissionError): nothing catches it
SaveOpenFail ==
    /\ pc = "save"
    /\ ~writable
    /\ calls' = Append(calls, "save")
    /\ exc' = "PermissionError"
    /\ pc' = "crashed"
    /\ UNCHANGED <<response, writable, file_before, file, fileOpen, emojis_data,
                   mapped_emojis, log>>

\* open(output_file, 'w') creates or truncates the file
SaveOpen ==
    /\ pc = "save"
    /\ writable
    /\ calls' = Append(calls, "save")
    /\ file' = [exists |-> TRUE, content |-> <<>>]
    /\ fileOpen' = TRUE
    /\ pc' = "write"
    /\ UNCHANGED <<response, writable, file_before, emojis_data, mapped_emojis, log, exc>>

\* one f.write(chunk) of json.dump
SaveWrite ==
    /\ pc = "write"
    /\ ~AllWritten
    /\ Encodable(NextChunk)
    /\ file' = [file EXCEPT !.content = Append(@, NextChunk)]
    /\ UNCHANGED <<pc, response, writable, file_before, fileOpen, emojis_data,
                   mapped_emojis, log, exc, calls>>

\* faulty variant: the file opened without a with statement, so an
\* exception leaves the handle open
SaveWriteFail_Leak ==
    /\ pc = "write"
    /\ \/ ~AllWritten /\ ~Encodable(NextChunk) /\ exc' = "UnicodeEncodeError"
       \/ exc' = "OSError"
    /\ pc' = "crashed"
    /\ UNCHANGED <<response, writable, file_before, file, fileOpen, emojis_data,
                   mapped_emojis, log, calls>>

\* f.write(chunk) raises UnicodeEncodeError for a chunk the codec cannot
\* encode, or the device fails (OSError, at any chunk or at the flush of
\* close); the with statement closes f, which keeps what was written, and
\* the exception goes on uncaught
SaveWriteFail ==
    /\ pc = "write"
    /\ \/ ~AllWritten /\ ~Encodable(NextChunk) /\ exc' = "UnicodeEncodeError"
       \/ exc' = "OSError"
    /\ fileOpen' = FALSE
    /\ pc' = "crashed"
    /\ UNCHANGED <<response, writable, file_before, file, emojis_data, mapped_emojis,
                   log, calls>>

\* json.dump has returned: the with statement closes f, save_to_json logs
\* and returns, and __main__ logs its last line
SaveReturn ==
    /\ pc = "write"
    /\ AllWritten
    /\ fileOpen' = FALSE
    /\ log' = log \o <<Info("Emojis saved to emojis.json"),
                       Info("Emojis fetched, mapped, and saved successfully.")>>
    /\ pc' = "done"
    /\ UNCHANGED <<response, writable, file_before, file, emojis_data, mapped_emojis,
                   exc, calls>>

\* ------------------------------------------------------------ specifications

Next ==
    \/ FetchNetworkError
    \/ FetchNon200
    \/ FetchBadJson
    \/ FetchOk
    \/ MainSkip
    \/ MainEnter
    \/ MainMapRaise
    \/ MainMap
    \/ SaveOpenFail
    \/ SaveOpen
    \/ SaveWrite
    \/ SaveWriteFail
    \/ SaveReturn

\* one run of the script
Spec == Init /\ [][Next]_vars

\* map_to_schema called on its own, on every input up to the bounds
InitMapper ==
    /\ pc = "call_map"
    /\ emojis_data \in {ListValue(d) : d \in SeqsUpTo(MapperRecords, MaxRecs)}
    /\ response = [kind |-> "http", status_code |-> 200, is_json |-> TRUE,
                   body |-> emojis_data.val]
    /\ writable = TRUE
    /\ file_before = NoFile
    /\ file = NoFile
    /\ fileOpen = FALSE
    /\ mapped_emojis = Unset
    /\ log = <<>>
    /\ exc = "none"
    /\ calls = <<>>

CallMapRaise ==
    /\ pc = "call_map"
    /\ map_to_schema(emojis_data.val).exc # "none"
    /\ calls' = Append(calls, "map")
    /\ exc' = map_to_schema(emojis_data.val).exc
    /\ pc' = "map_raised"
    /\ UNCHANGED <<response, writable, file_before, file, fileOpen, emojis_data,
                   mapped_emojis, log>>

CallMapReturn ==
    /\ pc = "call_map"
    /\ map_to_schema(emojis_data.val).exc = "none"
    /\ calls' = Append(calls, "map")
    /\ mapped_emojis' = ListValue(map_to_schema(emojis_data.val).val)
    /\ pc' = "map_returned"
    /\ UNCHANGED <<response, writable, file_before, file, fileOpen, emojis_data, log, exc>>

NextMapper == CallMapRaise \/ CallMapReturn

SpecMapper == InitMapper /\ [][NextMapper]_vars

\* -------------------------------------------------------------------- claims

\* a raw record with the three fields the mapper reads
WellFormed(r) == RequiredFields \subseteq DOMAIN r

Raw == emojis_data.val
Mapped == mapped_emojis.val

HasUpper(s) == \E i \in 1..Len(s) : s[i] \in UpperChars
HasSpace(s) == \E i \in 1..Len(s) : s[i] = " "

\* C1: every mapped record has exactly the six fields emoji, entity, code,
\* description, name, semver, with emoji and description copied, entity =
\* "&#x" + hexcode + ";", name = lower(replace(annotation, " ", "_")), code =
\* ":" + name + ":" and semver = null; no other field of the raw record is
\* carried over.  ("Gf f" maps to "gf_f", hexcode 1F600 to "&#x1F600;".)
C1_MappedRecord ==
    pc = "map_returned" =>
        \A i \in 1..Len(Mapped) :
            LET r == Raw[i]
                m == Mapped[i]
            IN /\ DOMAIN m = MappedFields
               /\ m["emoji"] = r["emoji"]
               /\ m["entity"] = <<"&", "#", "x">> \o r["hexcode"] \o <<";">>
               /\ m["name"] = str_lower(str_replace(r["annotation"], " ", "_"))
               /\ m["code"] = <<":">> \o m["name"] \o <<":">>
               /\ m["description"] = r["annotation"]
               /\ m["semver"] = None
               /\ r["hexcode"] = Hex1F600 =>
                    m["entity"] = <<"&", "#", "x", "1", "F", "6", "0", "0", ";">>
               /\ r["annotation"] = GrinningFace =>
                    /\ m["name"] = <<"g", "f", "_", "f">>
                    /\ m["code"] = <<":", "g", "f", "_", "f", ":">>

\* the mapper returned for an input holding a record with a further field
\* and a record whose annotation mixes uppercase and a space
C1_Witness ==
    /\ pc = "map_returned"
    /\ \E i \in 1..Len(Raw) : "group" \in DOMAIN Raw[i]
    /\ \E i \in 1..Len(Raw) : HasUpper(Raw[i]["annotation"]) /\ HasSpace(Raw[i]["annotation"])

\* C2: on well-formed raw records map_to_schema returns a sequence of the
\* same length whose i-th record is what the i-th raw record alone maps to
\* (no reordering, no deduplication, no dropping).
C2_LengthAndOrder ==
    (pc # "call_map" /\ \A i \in 1..Len(Raw) : WellFormed(Raw[i])) =>
        /\ pc = "map_returned"
        /\ Len(Mapped) = Len(Raw)
        /\ \A i \in 1..Len(Raw) : Mapped[i] = map_to_schema(<<Raw[i]>>).val[1]

\* the mapper returned for an input that repeats a record and for which
\* the order shows
C2_Witness ==
    /\ pc = "map_returned"
    /\ Len(Raw) >= 2
    /\ \E i, j \in 1..Len(Raw) : i < j /\ Raw[i] = Raw[j]

\* C3: for a non-empty annotation the mapped name and code hold no space
\* and no uppercase letter, and equal their own lowercasing.
C3_NoSpaceLowercase ==
    pc = "map_returned" =>
        \A i \in 1..Len(Mapped) :
            Raw[i]["annotation"] # <<>> =>
                /\ ~HasSpace(Mapped[i]["name"]) /\ ~HasSpace(Mapped[i]["code"])
                /\ ~HasUpper(Mapped[i]["name"]) /\ ~HasUpper(Mapped[i]["code"])
                /\ str_lower(Mapped[i]["name"]) = Mapped[i]["name"]
                /\ str_lower(Mapped[i]["code"]) = Mapped[i]["code"]

\* the mapper returned for an annotation of an uppercase letter whose
\* lowercase is two code points, next to a space
C3_Witness ==
    /\ pc = "map_returned"
    /\ \E i \in 1..Len(Raw) : Raw[i]["annotation"] = <<"U+0130", " ">>
    /\ \E i \in 1..Len(Raw) : Raw[i]["annotation"] \in {<<"G", "f">>, <<"f", "G">>}

FailedToFetch == "Failed to fetch data from {url}"

Non200 == response.kind = "http" /\ response.status_code # 200

\* C4: on a status other than 200 the fetcher logs an error and returns
\* None, and the run ends normally: no exception, the mapper and the writer
\* are not called, emojis.json is neither created nor modified.
C4_Non200 ==
    (Non200 /\ pc # "fetch") =>
        /\ \E i \in 1..Len(log) : log[i] = Error(FailedToFetch)
        /\ emojis_data = NoneValue
        /\ ~Truthy(emojis_data)
        /\ pc \in {"check", "done"}
        /\ exc = "none"
        /\ calls = <<"fetch">>
        /\ mapped_emojis = Unset
        /\ ~fileOpen
        /\ file = file_before

\* a run that met a 404 has ended, and there was no emojis.json
C4_Witness ==
    /\ response.kind = "http" /\ response.status_code = 404
    /\ pc = "done"
    /\ file_before = NoFile

FetchSucceeded ==
    /\ response.kind = "http" /\ response.status_code = 200 /\ response.is_json
    /\ \A i \in 1..Len(response.body) : WellFormed(response.body[i])

DocumentFile(m) == [exists |-> TRUE, content |-> Document(m)]

\* C5: whenever the fetch succeeds (200 with a JSON sequence of well-formed
\* records, of any length including zero) and the path is writable, the
\* run ends with emojis.json holding exactly the document of the mapped
\* sequence.  (Stated of the runs that end without an exception.)
C5_SuccessWritesDocument ==
    (pc = "done" /\ FetchSucceeded /\ writable) =>
        file = DocumentFile(map_to_schema(response.body).val)

FetchError ==
    \/ response.kind = "network_error"
    \/ response.kind = "http" /\ response.status_code # 200
    \/ response.kind = "http" /\ response.status_code = 200 /\ ~response.is_json

\* C6: every kind of FetchError (non-200 response, network failure,
\* malformed JSON body) is logged and halts the pipeline: an error is
\* logged, mapping and writing are skipped, no output is written.
C6_FetchErrorLogged ==
    (FetchError /\ pc \in {"done", "crashed"}) =>
        /\ \E i \in 1..Len(log) : log[i].level = "ERROR"
        /\ calls = <<"fetch">>
        /\ file = file_before

\* C7: when a fetched record lacks a required field, map_to_schema raises
\* instead of returning (no partial sequence reaches __main__), the writer
\* is never called and emojis.json is unchanged.
C7_MissingField ==
    (emojis_data.kind = "list" /\ \E i \in 1..Len(Raw) : ~WellFormed(Raw[i])) =>
        /\ mapped_emojis = Unset
        /\ pc \in {"check", "map", "crashed"}
        /\ pc = "crashed" => exc = "KeyError" /\ calls = <<"fetch", "map">>
        /\ ~fileOpen
        /\ file = file_before

\* the run has ended in KeyError on a body whose first record is well
\* formed and whose second is not, with an emojis.json in place
C7_Witness ==
    /\ pc = "crashed" /\ exc = "KeyError"
    /\ Len(Raw) >= 2 /\ WellFormed(Raw[1]) /\ ~WellFormed(Raw[2])
    /\ file_before = OldFile

\* C8: after any run, whatever failure occurs, emojis.json has the content
\* it had before the run or holds the complete document of the mapped
\* sequence; it is never left empty, truncated or partially written.
C8_AllOrNothing ==
    pc \in {"done", "crashed"} =>
        \/ file = file_before
        \/ mapped_emojis.kind = "list" /\ file = DocumentFile(Mapped)

IsPrefix(s, t) == Len(s) <= Len(t) /\ \A i \in 1..Len(s) : s[i] = t[i]

\* C9: the stages run at most once each and in order: fetch, then map,
\* then save; the mapper is called only on fetched data, and the file is
\* opened or changed only once the whole sequence is mapped.
C9_StagesInOrder ==
    /\ IsPrefix(calls, <<"fetch", "map", "save">>)
    /\ (\E i \in 1..Len(calls) : calls[i] = "map") =>
            emojis_data.kind = "list" /\ emojis_data.val = response.body
    /\ mapped_emojis.kind = "list" => emojis_data.kind = "list"
    /\ (fileOpen \/ file # file_before \/ \E i \in 1..Len(calls) : calls[i] = "save") =>
            /\ mapped_emojis.kind = "list"
            /\ Len(Mapped) = Len(Raw)
            /\ calls = <<"fetch", "map", "save">>

\* the file is open for writing, after the three stages were called
C9_Witness ==
    /\ fileOpen
    /\ calls = <<"fetch", "map", "save">>
    /\ Len(Mapped) >= 2

EmojisSaved == "Emojis saved to emojis.json"

\* C10: once save_to_json has returned or raised the file is closed, also
\* when a write fails midway; "Emojis saved" is logged only when the write
\* completed without error.
C10_HandleReleased ==
    /\ pc \in {"done", "crashed"} => ~fileOpen
    /\ fileOpen => pc = "write"
    /\ Logged(EmojisSaved) =>
            /\ exc = "none"
            /\ ~fileOpen
            /\ file = DocumentFile(Mapped)

\* save_to_json raised midway: some chunks are written, the next one could
\* not be encoded
C10_Witness ==
    /\ pc = "crashed" /\ exc = "UnicodeEncodeError"
    /\ calls = <<"fetch", "map", "save">>
    /\ Len(file.content) >= 2
    /\ ~Logged(EmojisSaved)

====
